---- MODULE Spec2Model ----
(***************************************************************************)
(* KubelessDeploy (src/deploy/kubelessDeploy.js): the deploy:deploy hook   *)
(* of the kubeless provider plugin.  deployFunction populates one record   *)
(* per declared function and hands the batch to the submitter (deploy)     *)
(* once populatedFunctions is as long as the function map.                 *)
(*                                                                         *)
(* JavaScript objects are functions from property names to values, the     *)
(* value undefined is the string Undef, and one turn of the event loop     *)
(* (a callback run to completion) is one action.                           *)
(***************************************************************************)
EXTENDS Integers, Sequences, FiniteSets, TLC

VARIABLES
  options,            \* this.options: [package]
  servicePackage,     \* this.serverless.service.package: [path, artifact, individually]
  globalArtifact,     \* this.serverless.config.serverless.service.artifact
  providerImage,      \* this.serverless.service.provider.image
  functions,          \* this.serverless.service.functions, in key order: <<[name, description]>>
  fs,                 \* the file system: path -> [type, size, manifest]
  pc,                 \* where deployFunction is: idle, configInit, looped, initFailed
  promise,            \* the BbPromise of line 108: [state, reason, jobs]
  populatedFunctions, \* the result collection of line 106
  branch,             \* per function name: [st, pkg, deployOptions, failed]
  called,             \* spy: the set of <<operation, function name>> invoked so far
  thrown,             \* the error thrown out of the init().then callback, Undef if none
  log,                \* this.serverless.cli.log: the messages, in order
  deployCalls,        \* how many times the submitter deploy() of line 155 was invoked
  submitted,          \* the batch the submitter was invoked with
  buffers,            \* how many Buffer objects fs.readFileSync has returned
  loadZipCache,       \* the keys of the _.memoize cache of line 42: Buffer identities
  decodeCount,        \* path -> how many times JSZip.loadAsync decoded its bytes
  eventsIn,           \* an event list handed to the normalizer
  eventsOut,          \* the normalizer's result
  pkgResult,          \* the result of a direct getPkg call
  packageExclude,     \* this.serverless.service.package.exclude: [present, patterns]
  excludesCalls       \* spy on excludes: [count, before]

hookVars == <<packageExclude, excludesCalls>>
envVars == <<options, servicePackage, globalArtifact, providerImage, functions, fs,
             hookVars>>
runVars == <<pc, promise, populatedFunctions, branch, called, thrown, log,
             deployCalls, submitted>>
zipVars == <<buffers, loadZipCache, decodeCount>>
pureVars == <<eventsIn, eventsOut, pkgResult>>
vars == <<envVars, runVars, zipVars, pureVars>>

----------------------------------------------------------------------------
(* Bounds of the model *)

\* the largest function map
MaxFuncs == 2
\* the longest event list handed to the normalizer
MaxEvents == 3
\* the longest exclusion list the service starts with
MaxPatterns == 3
\* the most invocations of the excludes hook
MaxExcludes == 2

----------------------------------------------------------------------------
(* JavaScript values *)

Undef == "undefined"

\* ToBoolean on the values the model uses: undefined and '' are falsy
Truthy(v) == v # Undef /\ v # ""

\* a || b
Or(a, b) == IF Truthy(a) THEN a ELSE b

EmptyObj == [k \in {} |-> Undef]

\* _.assign({}, a, b): own properties of b win
Assign(a, b) ==
  [k \in (DOMAIN a) \cup (DOMAIN b) |-> IF k \in DOMAIN b THEN b[k] ELSE a[k]]

\* _.assign({}, s[1], ..., s[n]); a source that is undefined is left out of s
RECURSIVE AssignAll(_)
AssignAll(s) ==
  IF s = <<>> THEN EmptyObj
  ELSE Assign(AssignAll(SubSeq(s, 1, Len(s) - 1)), s[Len(s)])

FuncName(i) == "f" \o ToString(i)

----------------------------------------------------------------------------
(* excludes, lines 45-49 *)

\* service.package.exclude not set
NoExclude == [present |-> FALSE, patterns |-> <<>>]

\* a slip in excludes: the pattern added only when the list does not hold it
excludesOnce(exclude) ==
  LET list == IF exclude.present THEN exclude.patterns ELSE <<>> IN
  [present |-> TRUE,
   patterns |-> IF \E i \in 1..Len(list) : list[i] = "node_modules/**"
                THEN list ELSE Append(list, "node_modules/**")]

\* lines 46-48: (exclude || []).push('node_modules/**'), stored back; an
\* array, empty or not, is truthy
excludes(exclude) ==
  LET list == IF exclude.present THEN exclude.patterns ELSE <<>> IN
  [present |-> TRUE, patterns |-> Append(list, "node_modules/**")]

----------------------------------------------------------------------------
(* The file system, as fs.lstatSync / fs.statSync / fs.readFileSync see it *)

Missing == [type |-> "none", size |-> 0, manifest |-> FALSE]

\* what a path gives that treats a regular file as a directory: the file
\* cannot be entered
NotDirectory == [type |-> "notdir", size |-> 0, manifest |-> FALSE]

EndsWithSeparator(path) ==
  Len(path) > 0 /\ SubSeq(path, Len(path), Len(path)) = "/"

\* the path leads through a regular file: one of its leading components,
\* followed by the separator, is held by the file system as a regular file
ThroughFile(path) ==
  \E q \in DOMAIN fs :
    /\ fs[q].type = "file"
    /\ Len(q) < Len(path)
    /\ SubSeq(path, 1, Len(q)) = q
    /\ EndsWithSeparator(q) \/ SubSeq(path, Len(q) + 1, Len(q) + 1) = "/"

\* the stat of a path; a regular file is reached neither through a path ending
\* in the separator nor entered by a longer path, and a path the file system
\* does not hold does not exist
Lstat(path) ==
  IF ThroughFile(path) THEN NotDirectory
  ELSE IF path \notin DOMAIN fs THEN Missing
  ELSE IF fs[path].type = "file" /\ EndsWithSeparator(path) THEN NotDirectory
  ELSE fs[path]

\* the errors of fs.lstatSync (line 92) and fs.statSync (line 68) on a missing
\* path, and on a regular file written with a trailing separator
ErrLstat == "ENOENT: no such file or directory, lstat"
ErrStat == "ENOENT: no such file or directory, stat"
ErrLstatNotDir == "ENOTDIR: not a directory, lstat"
ErrStatNotDir == "ENOTDIR: not a directory, stat"

Return(v) == [ok |-> TRUE, value |-> v, error |-> Undef, logged |-> <<>>]
Throw(e, msgs) == [ok |-> FALSE, value |-> Undef, error |-> e, logged |-> msgs]

----------------------------------------------------------------------------
(* getPkg, lines 81-101 *)

ErrNotDirectory ==
  "Expecting the Paramater to be a directory for individualy packaged functions"

\* lines 82-84: the sources that do not read the function's description
ServiceLevelPkg ==
  Or(Or(options.package, servicePackage.path), servicePackage.artifact)

\* lines 82-86: const pkg = a || b || c || d || e
PkgChain(description) ==
  Or(Or(ServiceLevelPkg, description.package.artifact), globalArtifact)

getPkg(description, funcName) ==
  IF ~Truthy(ServiceLevelPkg) /\ "package" \notin DOMAIN description
  THEN Throw("TypeError", <<>>)
  ELSE
    LET pkg == PkgChain(description) IN
    IF Truthy(options.package) /\ servicePackage.individually
    THEN IF Lstat(pkg).type = "none" THEN Throw(ErrLstat, <<>>)
         ELSE IF Lstat(pkg).type = "notdir" THEN Throw(ErrLstatNotDir, <<>>)
         ELSE IF Lstat(pkg).type = "dir" THEN Return(pkg \o funcName \o ".zip")
         ELSE Throw(ErrNotDirectory, <<ErrNotDirectory>>)
    ELSE Return(pkg)

----------------------------------------------------------------------------
(* checkSize, lines 67-79 *)

oneMB == 1048576

\* Math.round(size / oneMB)
RoundedMB(size) == (2 * size + oneMB) \div (2 * oneMB)

\* lines 74-76
SizeWarning(size) ==
  "WARNING! Function zip file is " \o ToString(RoundedMB(size)) \o "MB. " \o
  "The maximum size allowed is 1MB: please use package.exclude directives " \o
  "to include only the required files"

\* a slip at line 72: the comparison made inclusive
checkSizeInclusive(pkg) ==
  IF pkg = Undef THEN Throw("TypeError", <<>>)
  ELSE IF Lstat(pkg).type = "none" THEN Throw(ErrStat, <<>>)
  ELSE IF Lstat(pkg).type = "notdir" THEN Throw(ErrStatNotDir, <<>>)
  ELSE IF Lstat(pkg).size >= oneMB
       THEN [Return(Undef) EXCEPT !.logged = <<SizeWarning(Lstat(pkg).size)>>]
       ELSE Return(Undef)

checkSize(pkg) ==
  IF pkg = Undef THEN Throw("TypeError", <<>>)
  ELSE IF Lstat(pkg).type = "none" THEN Throw(ErrStat, <<>>)
  ELSE IF Lstat(pkg).type = "notdir" THEN Throw(ErrStatNotDir, <<>>)
  ELSE IF Lstat(pkg).size > oneMB
       THEN [Return(Undef) EXCEPT !.logged = <<SizeWarning(Lstat(pkg).size)>>]
       ELSE Return(Undef)

----------------------------------------------------------------------------
(* The promise of line 108 *)

NewPromise == [state |-> "pending", reason |-> Undef, jobs |-> 0]

\* a slip in the promise: resolve settles it whatever its state
resolveSettled(p) == [state |-> "fulfilled", reason |-> Undef, jobs |-> p.jobs + 1]

\* resolve(): settles a pending promise and queues its .then callback (line 155)
resolve(p) ==
  IF p.state = "pending"
  THEN [state |-> "fulfilled", reason |-> Undef, jobs |-> p.jobs + 1]
  ELSE p

\* a slip in the promise: a later rejection replaces the earlier reason
rejectLastWins(p, err) ==
  IF p.state # "fulfilled"
  THEN [state |-> "rejected", reason |-> err, jobs |-> p.jobs]
  ELSE p

\* reject(err): settles a pending promise; a settled promise stays as it is
reject(p, err) ==
  IF p.state = "pending"
  THEN [state |-> "rejected", reason |-> err, jobs |-> p.jobs]
  ELSE p

\* a slip at line 120: the strategy's failure caught and dropped
CatchRejectDropped(p, err) == p

\* line 120: .catch(reject) on the strategy's deploy promise
CatchReject(p, err) == reject(p, err)

\* a slip at lines 123-125: the read failure handed to reject
SwallowReadErrorRejecting(p, err) == reject(p, err)

\* lines 123-125: .catch(() => {}) on the getFileContent promise
SwallowReadError(p, err) == p

\* a slip in the barrier: the check run against the length before the push
BarrierReachedStaleLength(pf) == Len(pf) - 1 = Len(functions)

\* a slip in the barrier: released one record early
BarrierReachedOneEarly(pf) == Len(pf) = Len(functions) - 1

\* lines 141-142 and 149: populatedFunctions.length === _.keys(functions).length
BarrierReached(pf) == Len(pf) = Len(functions)

----------------------------------------------------------------------------
(* The event normalizer, lines 131-139 *)

\* _.keys(event)[0] of a single-key event
EventType(event) == CHOOSE k \in DOMAIN event : TRUE

\* a slip in the normalizer: every kind nested under its own key
NormalizeEventNested(event) ==
  LET type == EventType(event) IN
  Assign([type |-> type], [k \in {type} |-> event[type]])

NormalizeEvent(event) ==
  LET type == EventType(event) IN
  IF type = "trigger" THEN Assign([type |-> type], [trigger |-> event[type]])
  ELSE IF type = "schedule" THEN Assign([type |-> type], [schedule |-> event[type]])
  ELSE Assign([type |-> type], event[type])

\* _.map(events, ...)
NormalizeEvents(events) == [i \in 1..Len(events) |-> NormalizeEvent(events[i])]

\* description.events as _.map sees it: a missing list maps to []
EventsOf(description) ==
  IF "events" \in DOMAIN description THEN description.events ELSE <<>>

----------------------------------------------------------------------------
(* The populated records, lines 127-140 and 148 *)

ImageOf(description) ==
  IF "image" \in DOMAIN description THEN Or(description.image, providerImage)
  ELSE providerImage

\* a slip at lines 127-130: the metadata merged after the id
HandlerRecordMetadataLast(description, deployOptions, name, requirementsContent) ==
  AssignAll(<<description,
              [id |-> name,
               deps |-> requirementsContent,
               image |-> ImageOf(description),
               events |-> NormalizeEvents(EventsOf(description))]>> \o deployOptions)

\* lines 127-140; deployOptions is <<>> when the strategy's deploy was rejected
HandlerRecord(description, deployOptions, name, requirementsContent) ==
  AssignAll(<<description>> \o deployOptions \o
            <<[id |-> name,
               deps |-> requirementsContent,
               image |-> ImageOf(description),
               events |-> NormalizeEvents(EventsOf(description))]>>)

\* a slip at line 148: the record of a function without handler built like the rest
NoHandlerRecordEnriched(description, name) ==
  Assign(description, [id |-> name, deps |-> Undef, image |-> ImageOf(description),
                       events |-> NormalizeEvents(EventsOf(description))])

\* line 148
NoHandlerRecord(description, name) == Assign(description, [id |-> name])

HasHandler(description) ==
  "handler" \in DOMAIN description /\ Truthy(description.handler)

----------------------------------------------------------------------------
(* getFileContent, lines 61-65, and the memoized JSZip.loadAsync, line 42 *)

\* the text of the dependency manifest held by the archive at path
ManifestText(path) == "deps of " \o path

\* zip.file(relativePath).async('string'): a missing entry makes zip.file
\* return null and the callback throw
ReadManifest(path) ==
  IF Lstat(path).manifest THEN Return(ManifestText(path))
  ELSE Throw("TypeError", <<>>)

----------------------------------------------------------------------------
(* deployFunction, lines 104-177 *)

\* read is <<>> until the promise of getFileContent has settled
NewBranch ==
  [st |-> "Init", pkg |-> Undef, deployOptions |-> <<>>, failed |-> FALSE,
   read |-> <<>>]

StrategyDeployError(name) == "StrategyDeployError: " \o name

\* what the strategy's deploy may resolve with: opaque, mergeable metadata
DeployOptionsSet ==
  { [checksum |-> "sha256", content |-> "base64"],
    [id |-> "metadata-id", contentUrl |-> "http://bucket/code"] }

\* the state the callback of lines 109-154 works on
LoopState ==
  [promise |-> promise, populatedFunctions |-> populatedFunctions,
   branch |-> branch, called |-> called, thrown |-> thrown, log |-> log]

\* lines 111-152: one iteration of _.each
LoopBody(acc, fn) ==
  LET description == fn.description
      name == fn.name
      got == getPkg(description, name)
      acc1 == [acc EXCEPT !.called = @ \cup {<<"getPkg", name>>},
                          !.log = @ \o got.logged]
  IN
  IF ~got.ok
  THEN [acc1 EXCEPT !.thrown = got.error, !.branch[name].st = "Threw"]
  ELSE
    LET pkg == got.value
        checked == checkSize(pkg)
        acc2 == [acc1 EXCEPT !.called = @ \cup {<<"checkSize", name>>},
                             !.log = @ \o checked.logged,
                             !.branch[name].pkg = pkg]
    IN
    IF ~checked.ok
    THEN [acc2 EXCEPT !.thrown = checked.error, !.branch[name].st = "Threw"]
    ELSE IF HasHandler(description)
    THEN [acc2 EXCEPT !.called = @ \cup {<<"deploy", name>>},
                      !.branch[name].st = "Deploying"]
    ELSE
      LET pf == Append(acc2.populatedFunctions, NoHandlerRecord(description, name)) IN
      [acc2 EXCEPT !.populatedFunctions = pf,
                   !.branch[name].st = "Populated",
                   !.promise = IF BarrierReached(pf) THEN resolve(@) ELSE @]

\* a slip at line 110: only the first function's branch launched by the loop
EachFirstOnly(i, acc) ==
  IF i > Len(functions) \/ acc.thrown # Undef \/ i > 1 THEN acc
  ELSE LoopBody(acc, functions[i])

\* _.each(functions, ...): in key order, until the callback throws
RECURSIVE Each(_, _)
Each(i, acc) ==
  IF i > Len(functions) \/ acc.thrown # Undef THEN acc
  ELSE Each(i + 1, LoopBody(acc, functions[i]))

Names == {functions[i].name : i \in 1..Len(functions)}

DescriptionOf(name) ==
  functions[CHOOSE i \in 1..Len(functions) : functions[i].name = name].description

\* the hook calls deployFunction: lines 105-109, up to kubelessConfig.init()
DeployFunction ==
  /\ pc = "idle"
  /\ pc' = "configInit"
  /\ promise' = NewPromise
  /\ populatedFunctions' = <<>>
  /\ UNCHANGED <<branch, called, thrown, log, deployCalls, submitted>>
  /\ UNCHANGED <<envVars, zipVars, pureVars>>

\* kubelessConfig.init() is fulfilled: the callback of lines 109-154 runs
ConfigInitFulfilled ==
  /\ pc = "configInit"
  /\ LET end == Each(1, LoopState) IN
       /\ promise' = end.promise
       /\ populatedFunctions' = end.populatedFunctions
       /\ branch' = end.branch
       /\ called' = end.called
       /\ thrown' = end.thrown
       /\ log' = end.log
  /\ pc' = "looped"
  /\ UNCHANGED <<deployCalls, submitted>>
  /\ UNCHANGED <<envVars, zipVars, pureVars>>

\* kubelessConfig.init() is rejected: line 109 has no rejection handler
ConfigInitRejected ==
  /\ pc = "configInit"
  /\ pc' = "initFailed"
  /\ UNCHANGED <<promise, populatedFunctions, branch, called, thrown, log,
                 deployCalls, submitted>>
  /\ UNCHANGED <<envVars, zipVars, pureVars>>

\* line 119: the strategy's deploy is fulfilled with deployOptions
StrategyDeployFulfilled(name) ==
  /\ branch[name].st = "Deploying"
  /\ \E deployOptions \in DeployOptionsSet :
       branch' = [branch EXCEPT ![name].st = "Deployed",
                                ![name].deployOptions = <<deployOptions>>]
  /\ UNCHANGED <<pc, promise, populatedFunctions, called, thrown, log,
                 deployCalls, submitted>>
  /\ UNCHANGED <<envVars, zipVars, pureVars>>

\* lines 119-120: the strategy's deploy is rejected and .catch(reject) runs;
\* the chain goes on with deployOptions undefined
StrategyDeployRejected(name) ==
  /\ branch[name].st = "Deploying"
  /\ promise' = CatchReject(promise, StrategyDeployError(name))
  /\ branch' = [branch EXCEPT ![name].st = "Deployed", ![name].failed = TRUE]
  /\ UNCHANGED <<pc, populatedFunctions, called, thrown, log, deployCalls, submitted>>
  /\ UNCHANGED <<envVars, zipVars, pureVars>>

\* a slip at lines 119-122: the manifest read started next to the strategy's
\* deploy instead of in its .then
ReadDependencyFileEarly(name) ==
  /\ branch[name].st = "Deploying"
  /\ called' = called \cup {<<"getFileContent", name>>}
  /\ branch' = [branch EXCEPT ![name].st = "Reading"]
  /\ UNCHANGED <<pc, promise, populatedFunctions, thrown, log, deployCalls, submitted>>
  /\ UNCHANGED <<envVars, zipVars, pureVars>>

\* lines 121-122 and 61-62: the callback calls getFileContent, which reads the
\* file into a fresh Buffer and hands it to the memoized JSZip.loadAsync
ReadDependencyFile(name) ==
  /\ branch[name].st = "Deployed"
  /\ called' = called \cup {<<"getFileContent", name>>}
  /\ LET pkg == branch[name].pkg IN
       IF Lstat(pkg).type = "file"
       THEN LET buffer == buffers + 1 IN
            /\ buffers' = buffer
            /\ loadZipCache' = loadZipCache \cup {buffer}
            /\ decodeCount' =
                 IF buffer \in loadZipCache THEN decodeCount
                 ELSE [decodeCount EXCEPT ![pkg] = @ + 1]
            /\ branch' = [branch EXCEPT ![name].st = "Reading"]
       ELSE \* readFileSync throws: the callback dies with an unhandled rejection
            /\ branch' = [branch EXCEPT ![name].st = "Crashed"]
            /\ UNCHANGED zipVars
  /\ UNCHANGED <<pc, promise, populatedFunctions, thrown, log, deployCalls, submitted>>
  /\ UNCHANGED <<envVars, pureVars>>

\* line 63: the archive is decoded and the callback asks it for the manifest.
\* A missing entry makes the callback throw, which settles the promise of
\* getFileContent with the TypeError; otherwise the callback returns the
\* promise of async('string') and the text is still to come
ManifestRead(name) ==
  /\ branch[name].st = "Reading"
  /\ LET read == ReadManifest(branch[name].pkg) IN
       branch' = IF read.ok
                 THEN [branch EXCEPT ![name].st = "Extracting"]
                 ELSE [branch EXCEPT ![name].st = "ReadSettled",
                                     ![name].read = <<read>>]
  /\ UNCHANGED <<pc, promise, populatedFunctions, called, thrown, log,
                 deployCalls, submitted>>
  /\ UNCHANGED <<envVars, zipVars, pureVars>>

\* line 63: async('string') is done and the promise of getFileContent is
\* fulfilled with the text
ManifestExtracted(name) ==
  /\ branch[name].st = "Extracting"
  /\ branch' = [branch EXCEPT ![name].st = "ReadSettled",
                               ![name].read = <<ReadManifest(branch[name].pkg)>>]
  /\ UNCHANGED <<pc, promise, populatedFunctions, called, thrown, log,
                 deployCalls, submitted>>
  /\ UNCHANGED <<envVars, zipVars, pureVars>>

\* lines 123-125: .catch(() => {}) passes a text on and turns a failure
\* into undefined
CatchReadError(name) ==
  /\ branch[name].st = "ReadSettled"
  /\ LET read == branch[name].read[1] IN
       /\ promise' = IF read.ok THEN promise ELSE SwallowReadError(promise, read.error)
       /\ branch' = [branch EXCEPT ![name].st = "Caught",
                                    ![name].read =
                                      IF read.ok THEN @ ELSE <<Return(Undef)>>]
  /\ UNCHANGED <<pc, populatedFunctions, called, thrown, log, deployCalls, submitted>>
  /\ UNCHANGED <<envVars, zipVars, pureVars>>

\* a slip at lines 122-126: the push not chained to the read, so the record is
\* built while the read is still under way
PopulateUnsettled(name) ==
  /\ branch[name].st = "Reading"
  /\ LET pf == Append(populatedFunctions,
                      HandlerRecord(DescriptionOf(name), branch[name].deployOptions,
                                    name, Undef))
     IN
       /\ populatedFunctions' = pf
       /\ promise' = IF BarrierReached(pf) THEN resolve(promise) ELSE promise
  /\ branch' = [branch EXCEPT ![name].st = "Populated"]
  /\ UNCHANGED <<pc, called, thrown, log, deployCalls, submitted>>
  /\ UNCHANGED <<envVars, zipVars, pureVars>>

\* lines 126-145: the .then callback pushes the record built from
\* requirementsContent and checks the barrier
Populate(name) ==
  /\ branch[name].st = "Caught"
  /\ LET requirementsContent == branch[name].read[1].value
         pf == Append(populatedFunctions,
                      HandlerRecord(DescriptionOf(name), branch[name].deployOptions,
                                    name, requirementsContent))
     IN
       /\ populatedFunctions' = pf
       /\ promise' = IF BarrierReached(pf) THEN resolve(promise) ELSE promise
  /\ branch' = [branch EXCEPT ![name].st = "Populated"]
  /\ UNCHANGED <<pc, called, thrown, log, deployCalls, submitted>>
  /\ UNCHANGED <<envVars, zipVars, pureVars>>

\* line 155: the .then callback of the fulfilled promise invokes the submitter
Submit ==
  /\ promise.jobs > 0
  /\ promise' = [promise EXCEPT !.jobs = @ - 1]
  /\ deployCalls' = deployCalls + 1
  /\ submitted' = populatedFunctions
  /\ UNCHANGED <<pc, populatedFunctions, branch, called, thrown, log>>
  /\ UNCHANGED <<envVars, zipVars, pureVars>>

----------------------------------------------------------------------------
(* The inputs of a deployment *)

Directory == [type |-> "dir", size |-> 4096, manifest |-> FALSE]
Zip(size, manifest) == [type |-> "file", size |-> size, manifest |-> manifest]

FsEntries ==
  { Missing, Directory,
    Zip(2048, TRUE), Zip(2048, FALSE), Zip(oneMB + 1, TRUE) }

\* the declarations deployed here all carry a package object; getPkg on a
\* declaration without one is an input of InitPkg
FuncDecls ==
  { [handler |-> "handler.main",
     events |-> <<[trigger |-> "topic"], [http |-> [path |-> "/x"]]>>,
     package |-> [artifact |-> "a.zip"]],
    [handler |-> "handler.other", id |-> "declared-id", image |-> "declared-image",
     package |-> [artifact |-> "b.zip"]],
    [events |-> <<[schedule |-> "* * * * *"], [http |-> [type |-> "GET"]]>>,
     package |-> [artifact |-> "a.zip"]],
    [id |-> "declared-id", package |-> [artifact |-> Undef]] }

FunctionMaps ==
  UNION { { [i \in 1..n |-> [name |-> FuncName(i), description |-> d[i]]] :
            d \in [1..n -> FuncDecls] } : n \in 0..MaxFuncs }

\* <directory><name>.zip for every declared function, line 93
ChildPaths ==
  IF Truthy(options.package) /\ servicePackage.individually
  THEN {options.package \o functions[i].name \o ".zip" : i \in 1..Len(functions)}
  ELSE {}

\* the paths a deployment of these functions can touch
TouchedPaths ==
  { p \in {options.package} \cup ChildPaths \cup
          {PkgChain(functions[i].description) : i \in 1..Len(functions)} :
    Truthy(p) }

\* a file inside <directory> exists only if <directory> is a directory
FileSystems ==
  { f \in [TouchedPaths -> FsEntries] :
      \A p \in ChildPaths :
        f[p].type # "none" => f[options.package].type = "dir" }

NoPkgResult == [name |-> Undef, result |-> Return(Undef)]

\* the packaging hook has not run and the service sets no exclusion list
NoExcludes ==
  /\ packageExclude = NoExclude
  /\ excludesCalls = [count |-> 0, before |-> NoExclude]

Idle ==
  /\ pc = "idle"
  /\ promise = NewPromise
  /\ populatedFunctions = <<>>
  /\ branch = [n \in Names |-> NewBranch]
  /\ called = {}
  /\ thrown = Undef
  /\ log = <<>>
  /\ deployCalls = 0
  /\ submitted = <<>>
  /\ buffers = 0
  /\ loadZipCache = {}
  /\ decodeCount = [p \in DOMAIN fs |-> 0]

Init ==
  /\ functions \in FunctionMaps
  /\ options \in {[package |-> p] : p \in {Undef, "/out/"}}
  /\ servicePackage \in
       {[path |-> Undef, artifact |-> a, individually |-> b] :
          a \in {Undef, "svc.zip"}, b \in BOOLEAN}
  /\ globalArtifact = Undef
  /\ providerImage \in {"provider-image"}
  /\ fs \in FileSystems
  /\ Idle
  /\ eventsIn = <<>>
  /\ eventsOut = <<>>
  /\ pkgResult = NoPkgResult
  /\ NoExcludes

Next ==
  \/ DeployFunction
  \/ ConfigInitFulfilled
  \/ ConfigInitRejected
  \/ \E name \in Names : StrategyDeployFulfilled(name)
  \/ \E name \in Names : StrategyDeployRejected(name)
  \/ \E name \in Names : ReadDependencyFile(name)
  \/ \E name \in Names : ManifestRead(name)
  \/ \E name \in Names : ManifestExtracted(name)
  \/ \E name \in Names : CatchReadError(name)
  \/ \E name \in Names : Populate(name)
  \/ Submit

Spec == Init /\ [][Next]_vars

----------------------------------------------------------------------------
(* The event normalizer on its own: every event list up to MaxEvents *)

EventDecls ==
  { [trigger |-> "topic"],
    [schedule |-> "* * * * *"],
    [http |-> [path |-> "/x"]],
    [http |-> [type |-> "GET", path |-> "/y"]],
    [sqs |-> [queue |-> "jobs", schedule |-> "hourly"]],
    [manual |-> EmptyObj] }

EventLists == UNION { [1..n -> EventDecls] : n \in 0..MaxEvents }

NoDeployment ==
  /\ functions = <<>>
  /\ options = [package |-> Undef]
  /\ servicePackage = [path |-> Undef, artifact |-> Undef, individually |-> FALSE]
  /\ globalArtifact = Undef
  /\ providerImage = Undef
  /\ fs = EmptyObj

InitEvents ==
  /\ NoDeployment
  /\ Idle
  /\ eventsIn \in EventLists
  /\ eventsOut = <<>>
  /\ pkgResult = NoPkgResult
  /\ NoExcludes

\* lines 131-139: events: _.map(description.events, ...)
MapEvents ==
  /\ pc = "idle"
  /\ pc' = "normalized"
  /\ eventsOut' = NormalizeEvents(eventsIn)
  /\ UNCHANGED <<promise, populatedFunctions, branch, called, thrown, log,
                 deployCalls, submitted>>
  /\ UNCHANGED <<envVars, zipVars, eventsIn, pkgResult>>

SpecEvents == InitEvents /\ [][MapEvents]_vars

----------------------------------------------------------------------------
(* getPkg on its own: every combination of the five sources *)

InitPkg ==
  /\ options \in {[package |-> p] : p \in {Undef, "", "/out/", "/out", "/pkg.zip"}}
  /\ servicePackage \in
       {[path |-> p, artifact |-> a, individually |-> b] :
          p \in {Undef, "", "/svc/path"},
          a \in {Undef, "", "/svc/artifact.zip"},
          b \in BOOLEAN}
  /\ globalArtifact \in {Undef, "", "/global.zip"}
  /\ providerImage = Undef
  /\ functions \in
       {<<[name |-> "foo", description |-> d]>> :
          d \in {[handler |-> "handler.main", package |-> [artifact |-> a]] :
                   a \in {Undef, "", "fn.zip"}}
                \cup {[handler |-> "handler.main"]}}
  /\ fs \in [{p \in {options.package} : Truthy(p)} -> {Missing, Directory, Zip(2048, TRUE)}]
  /\ Idle
  /\ eventsIn = <<>>
  /\ eventsOut = <<>>
  /\ pkgResult = NoPkgResult
  /\ NoExcludes

\* a call of getPkg(description, funcName), as line 111 makes it
CallGetPkg ==
  /\ pc = "idle"
  /\ pc' = "resolved"
  /\ \E i \in 1..Len(functions) :
       pkgResult' = [name |-> functions[i].name,
                     result |-> getPkg(functions[i].description, functions[i].name)]
  /\ UNCHANGED <<promise, populatedFunctions, branch, called, thrown, log,
                 deployCalls, submitted>>
  /\ UNCHANGED <<envVars, zipVars, eventsIn, eventsOut>>

SpecPkg == InitPkg /\ [][CallGetPkg]_vars

----------------------------------------------------------------------------
(* Properties of deployFunction *)

\* the records of populatedFunctions built for the function called name
RecordsOf(name) ==
  {j \in 1..Len(populatedFunctions) : populatedFunctions[j].id = name}

StrategyFailed == \E n \in Names : branch[n].failed

\* nothing is left to run: every callback has run or will never run
Quiescent ==
  /\ pc \in {"looped", "initFailed"}
  /\ \A n \in Names : branch[n].st \in {"Init", "Threw", "Populated", "Crashed"}
  /\ promise.jobs = 0

\* C1: the submitter is invoked at most once, and the batch it is invoked with
\* is populatedFunctions holding exactly N records, one per declared function.
C1_SubmitOnceWithFullBatch ==
  /\ deployCalls <= 1
  /\ deployCalls = 1 =>
       /\ Len(submitted) = Len(functions)
       /\ \A n \in Names :
            Cardinality({j \in 1..Len(submitted) : submitted[j].id = n}) = 1

\* the submitter has run on a batch whose records completed out of key order
C1_Witness ==
  /\ deployCalls = 1
  /\ Len(submitted) >= 2
  /\ submitted[1].id # functions[1].name

\* C2: when config init succeeds, nothing fatal happens and every step has
\* settled, the barrier has been released and the submitter invoked once.
C2_BarrierReleasedOnce ==
  ( /\ Quiescent
    /\ pc = "looped"
    /\ thrown = Undef
    /\ ~StrategyFailed
    /\ \A n \in Names : branch[n].st # "Crashed" )
  => deployCalls = 1

\* C3: once the strategy's deploy has failed for a function, the submitter is
\* not invoked and no invocation of it is queued.
C3_NoSubmitAfterStrategyFailure ==
  StrategyFailed => (deployCalls = 0 /\ promise.jobs = 0)

\* the failure comes when every other function is already in the collection
C3_Witness ==
  /\ Len(functions) >= 2
  /\ \E n \in Names :
       /\ branch[n].failed
       /\ branch[n].st = "Deployed"
       /\ \A m \in Names \ {n} : branch[m].st = "Populated"

\* C4: when getPkg throws on a package path that is no directory, or checkSize
\* on a missing artifact, the promise returned by deployFunction has been
\* rejected with that error once everything has settled.
C4_FatalErrorRejects ==
  (Quiescent /\ thrown \in {ErrNotDirectory, ErrLstatNotDir, ErrStat}) =>
    (promise.state = "rejected" /\ promise.reason = thrown)

\* C5: for a function without handler none of getPkg, checkSize, the strategy's
\* deploy and getFileContent is invoked, and its branch is Init or Populated.
C5_NoHandlerSkipsResolution ==
  \A i \in 1..Len(functions) :
    ~HasHandler(functions[i].description) =>
      /\ \A op \in {"getPkg", "checkSize", "deploy", "getFileContent"} :
           <<op, functions[i].name>> \notin called
      /\ branch[functions[i].name].st \in {"Init", "Populated"}

\* the declaration with only id set to the function's name
DeclarationWithId(description, name) ==
  [k \in (DOMAIN description) \cup {"id"} |->
     IF k = "id" THEN name ELSE description[k]]

\* C6: the record of a function without handler is its declaration with only
\* id set to its name: no deps, image or metadata, events as declared.
C6_NoHandlerRecordIsDeclaration ==
  \A i \in 1..Len(functions) :
    LET description == functions[i].description
        name == functions[i].name
    IN ~HasHandler(description) =>
         /\ \A j \in RecordsOf(name) :
              populatedFunctions[j] = DeclarationWithId(description, name)
         /\ branch[name].st = "Populated" => Cardinality(RecordsOf(name)) = 1

\* a function without handler that declares events and one that declares its
\* own id are both in the collection
C6_Witness ==
  /\ \E i \in 1..Len(functions) :
       /\ ~HasHandler(functions[i].description)
       /\ "events" \in DOMAIN functions[i].description
       /\ branch[functions[i].name].st = "Populated"
  /\ \E i \in 1..Len(functions) :
       /\ ~HasHandler(functions[i].description)
       /\ "id" \in DOMAIN functions[i].description
       /\ branch[functions[i].name].st = "Populated"

\* C7: the archive at one path is decoded by JSZip.loadAsync at most once.
C7_DecodeAtMostOncePerPath ==
  \A p \in DOMAIN decodeCount : decodeCount[p] <= 1

\* C8: a function whose archive holds no dependency manifest is appended with
\* deps undefined, its read failure does not reject the batch, and the
\* submitter is invoked once all N functions are populated.
C8_MissingManifestSwallowed ==
  \A n \in Names :
    ( /\ branch[n].st = "Populated"
      /\ HasHandler(DescriptionOf(n))
      /\ ~Lstat(branch[n].pkg).manifest )
    => /\ Cardinality(RecordsOf(n)) = 1
       /\ \A j \in RecordsOf(n) : populatedFunctions[j].deps = Undef
       /\ promise.state = "rejected" => StrategyFailed
       /\ (Len(populatedFunctions) = Len(functions) /\ ~StrategyFailed) =>
            (promise.state = "fulfilled" /\ promise.jobs + deployCalls = 1)

\* the submitter has run on a batch holding a function without manifest
C8_Witness ==
  /\ deployCalls = 1
  /\ \E n \in Names :
       /\ HasHandler(DescriptionOf(n))
       /\ branch[n].st = "Populated"
       /\ ~Lstat(branch[n].pkg).manifest

----------------------------------------------------------------------------
(* Properties of the event normalizer *)

\* C9: the normalized list has the length and order of the declared one;
\* {trigger: v} becomes {type, trigger: v}, {schedule: v} becomes
\* {type, schedule: v}, and any other {k: v} becomes {type: k} merged with the
\* fields of v at top level.
C9_NormalizationShape ==
  pc = "normalized" =>
    /\ Len(eventsOut) = Len(eventsIn)
    /\ \A i \in 1..Len(eventsIn) :
         LET k == EventType(eventsIn[i])
             v == eventsIn[i][k]
             out == eventsOut[i]
         IN IF k = "trigger" THEN out = [type |-> k, trigger |-> v]
            ELSE IF k = "schedule" THEN out = [type |-> k, schedule |-> v]
            ELSE /\ DOMAIN out = {"type"} \cup DOMAIN v
                 /\ \A f \in DOMAIN v : out[f] = v[f]
                 /\ "type" \notin DOMAIN v => out.type = k

\* a list with a trigger, a schedule and another kind, in that order
C9_Witness ==
  /\ pc = "normalized"
  /\ Len(eventsIn) = 3
  /\ EventType(eventsIn[1]) = "trigger"
  /\ EventType(eventsIn[2]) = "schedule"
  /\ EventType(eventsIn[3]) = "http"
  /\ eventsOut[3] = [type |-> "http", path |-> "/x"]

----------------------------------------------------------------------------
(* Properties of getPkg *)

\* the artifact a declaration names; a declaration without package names none
DeclaredArtifact(description) ==
  IF "package" \in DOMAIN description THEN description.package.artifact ELSE Undef

\* the five sources of lines 82-86, highest priority first
PkgSources ==
  <<options.package, servicePackage.path, servicePackage.artifact,
    DeclaredArtifact(functions[1].description), globalArtifact>>

IndividualPackaging == Truthy(options.package) /\ servicePackage.individually

\* C10: outside the individual-packaging case getPkg returns the first
\* non-empty source in priority order, so a source is returned only when
\* every source above it is empty; a declaration without package has no
\* artifact of its own and falls through to the global artifact. With every
\* source empty the result, if any, is an empty source.
C10_FirstNonEmptySourceWins ==
  (pc = "resolved" /\ ~IndividualPackaging) =>
    /\ (\E i \in 1..5 : Truthy(PkgSources[i])) => pkgResult.result.ok
    /\ \A i \in 1..5 :
         (Truthy(PkgSources[i]) /\ \A j \in 1..(i - 1) : ~Truthy(PkgSources[j]))
           => pkgResult.result.value = PkgSources[i]
    /\ Truthy(pkgResult.result.value) =>
         \E i \in 1..5 :
           /\ pkgResult.result.value = PkgSources[i]
           /\ \A j \in 1..(i - 1) : ~Truthy(PkgSources[j])

\* <directory>/<file>, whether or not directory ends with the separator
JoinPath(directory, file) ==
  IF SubSeq(directory, Len(directory), Len(directory)) = "/"
  THEN directory \o file
  ELSE directory \o "/" \o file

\* C11: with options.package set and individual packaging, getPkg returns
\* <directory>/<functionName>.zip for every directory supplied, with or
\* without a trailing separator, and fails with the not-a-directory error
\* for every path that is no directory.
C11_IndividualPackagePath ==
  (pc = "resolved" /\ IndividualPackaging) =>
    IF Lstat(options.package).type = "dir"
    THEN /\ pkgResult.result.ok
         /\ pkgResult.result.value =
              JoinPath(options.package, pkgResult.name \o ".zip")
    ELSE /\ ~pkgResult.result.ok
         /\ pkgResult.result.error = ErrNotDirectory

----------------------------------------------------------------------------
(* The type of a normalized event *)

\* C20: the type of every normalized event is the single key of the declared
\* event, whatever its payload holds.
C20_TypeIsEventKey ==
  pc = "normalized" =>
    \A i \in 1..Len(eventsIn) : eventsOut[i].type = EventType(eventsIn[i])

----------------------------------------------------------------------------
(* The packaging hook on its own: every exclusion list up to MaxPatterns *)

Patterns == {"node_modules/**", "test/**", ".git/**"}

ExcludeLists ==
  {NoExclude} \cup
  { [present |-> TRUE, patterns |-> l] :
      l \in UNION { [1..n -> Patterns] : n \in 0..MaxPatterns } }

InitExcludes ==
  /\ options = [package |-> Undef]
  /\ servicePackage = [path |-> Undef, artifact |-> Undef, individually |-> FALSE]
  /\ globalArtifact = Undef
  /\ providerImage = Undef
  /\ functions = <<>>
  /\ fs = EmptyObj
  /\ Idle
  /\ eventsIn = <<>>
  /\ eventsOut = <<>>
  /\ pkgResult = NoPkgResult
  /\ packageExclude \in ExcludeLists
  /\ excludesCalls = [count |-> 0, before |-> packageExclude]

\* lines 35-36 and 45-49: the before:package:createDeploymentArtifacts hook
Excludes ==
  /\ excludesCalls.count < MaxExcludes
  /\ packageExclude' = excludes(packageExclude)
  /\ excludesCalls' = [excludesCalls EXCEPT !.count = @ + 1]
  /\ UNCHANGED <<options, servicePackage, globalArtifact, providerImage, functions, fs>>
  /\ UNCHANGED <<runVars, zipVars, pureVars>>

SpecExcludes == InitExcludes /\ [][Excludes]_vars

\* C13: after k >= 1 invocations of excludes the exclusion list is the list
\* the service started with (empty when it had none), in its order, followed
\* by k entries node_modules/**: one entry appended per invocation, nothing
\* removed, whether or not the pattern was already there.
C13_ExcludesAppendsOnce ==
  LET before == excludesCalls.before.patterns
      list == packageExclude.patterns
      k == excludesCalls.count
  IN k >= 1 =>
       /\ packageExclude.present
       /\ Len(list) = Len(before) + k
       /\ \A i \in 1..Len(before) : list[i] = before[i]
       /\ \A i \in (Len(before) + 1)..Len(list) : list[i] = "node_modules/**"
       /\ \E i \in 1..Len(list) : list[i] = "node_modules/**"

\* excludes has run twice on a list that already held node_modules/**
C13_Witness ==
  /\ excludesCalls.count = 2
  /\ excludesCalls.before.present
  /\ \E i \in 1..Len(excludesCalls.before.patterns) :
       excludesCalls.before.patterns[i] = "node_modules/**"
  /\ \E i \in 1..Len(excludesCalls.before.patterns) :
       excludesCalls.before.patterns[i] # "node_modules/**"

----------------------------------------------------------------------------
(* Deployments of archives around the size limit: every function has a      *)
(* handler and its own archive                                              *)

SizeEntries ==
  { Zip(oneMB - 1, TRUE), Zip(oneMB, TRUE), Zip(oneMB + 1, TRUE),
    Zip(3 * oneMB, FALSE) }

ArchiveOf(i) == FuncName(i) \o ".zip"

InitSize ==
  /\ \E n \in 1..MaxFuncs :
       functions =
         [i \in 1..n |->
            [name |-> FuncName(i),
             description |-> [handler |-> "handler.main",
                              package |-> [artifact |-> ArchiveOf(i)]]]]
  /\ options = [package |-> Undef]
  /\ servicePackage = [path |-> Undef, artifact |-> Undef, individually |-> FALSE]
  /\ globalArtifact = Undef
  /\ providerImage = "provider-image"
  /\ fs \in [{ArchiveOf(i) : i \in 1..Len(functions)} -> SizeEntries]
  /\ Idle
  /\ eventsIn = <<>>
  /\ eventsOut = <<>>
  /\ pkgResult = NoPkgResult
  /\ NoExcludes

SpecSize == InitSize /\ [][Next]_vars

\* the functions whose archive is larger than 1,048,576 bytes
Oversized == {i \in 1..Len(functions) : fs[ArchiveOf(i)].size > 1048576}

\* C12: checkSize logs one warning per archive strictly larger than
\* 1,048,576 bytes and none for the others, and an oversized archive does not
\* abort: nothing is thrown, every function's strategy deploy is issued, and
\* once all has settled without another failure every function is populated
\* and the batch submitted.
C12_WarningAboveOneMB ==
  pc = "looped" =>
    /\ Len(log) = Cardinality(Oversized)
    /\ \A j \in 1..Len(log) :
         \E i \in Oversized : log[j] = SizeWarning(fs[ArchiveOf(i)].size)
    /\ thrown = Undef
    /\ \A n \in Names : <<"deploy", n>> \in called /\ branch[n].st # "Threw"
    /\ (Quiescent /\ ~StrategyFailed) =>
         /\ \A n \in Names : branch[n].st = "Populated"
         /\ deployCalls = 1

\* an archive of 1,048,577 bytes was warned about next to one of exactly
\* 1,048,576 bytes that was not, and both functions were submitted
C12_Witness ==
  /\ deployCalls = 1
  /\ Len(log) = 1
  /\ \E i \in 1..Len(functions) : fs[ArchiveOf(i)].size = 1048577
  /\ \E i \in 1..Len(functions) : fs[ArchiveOf(i)].size = 1048576

----------------------------------------------------------------------------
\* the step in which the strategy's deploy of function n is seen to fail
FailureOf(n) == ~branch[n].failed /\ branch'[n].failed

\* C14: the first strategy deploy failure of an invocation rejects the
\* returned promise with that failure's error; every later failure leaves the
\* promise as it is (state, reason and pending callbacks), and no step after
\* the first failure changes the rejection or submits.
C14_FirstFailureWins ==
  [][ /\ \A n \in Names :
           FailureOf(n) =>
             IF StrategyFailed
             THEN promise' = promise
             ELSE /\ promise.state = "pending"
                  /\ promise'.state = "rejected"
                  /\ promise'.reason = StrategyDeployError(n)
      /\ StrategyFailed =>
           /\ promise.state = "rejected"
           /\ promise'.state = "rejected"
           /\ promise'.reason = promise.reason
           /\ deployCalls' = 0 ]_vars

\* two functions' deploys have failed and the promise carries the error of
\* one of them only
C14_Witness ==
  \E a, b \in Names :
    /\ a # b
    /\ branch[a].failed /\ branch[b].failed
    /\ promise.state = "rejected"
    /\ promise.reason = StrategyDeployError(a)
    /\ promise.reason # StrategyDeployError(b)

----------------------------------------------------------------------------
\* the branches whose strategy deploy was issued
Launched == {n \in Names : <<"deploy", n>> \in called}

\* C15: after a strategy deploy failure has rejected the promise no launched
\* branch is cancelled: a branch whose deploy has settled (the failed one
\* included) can still start its manifest read, a branch whose read is under
\* way can still settle it, swallow its failure and append its record, and when all has settled every launched
\* branch with a readable archive has appended exactly one record; through
\* all these appends the promise stays rejected and nothing is submitted.
C15_AbortCancelsNoBranch ==
  StrategyFailed =>
    /\ promise.state = "rejected"
    /\ promise.jobs = 0
    /\ deployCalls = 0
    /\ \A n \in Launched :
         /\ branch[n].st = "Deployed" => ENABLED ReadDependencyFile(n)
         /\ branch[n].st = "Reading" => ENABLED ManifestRead(n)
         /\ branch[n].st = "Extracting" => ENABLED ManifestExtracted(n)
         /\ branch[n].st = "ReadSettled" => ENABLED CatchReadError(n)
         /\ branch[n].st = "Caught" => ENABLED Populate(n)
         /\ branch[n].st = "Populated" => Cardinality(RecordsOf(n)) = 1
         /\ branch[n].st = "Crashed" => Lstat(branch[n].pkg).type # "file"
    /\ Quiescent =>
         \A n \in Launched :
           Lstat(branch[n].pkg).type = "file" => branch[n].st = "Populated"

\* every function has appended its record, the one whose deploy failed
\* included, and the promise is still rejected
C15_Witness ==
  /\ Len(functions) >= 2
  /\ Len(populatedFunctions) = Len(functions)
  /\ promise.state = "rejected"
  /\ \E n \in Names :
       /\ branch[n].failed
       /\ branch[n].st = "Populated"
       /\ populatedFunctions[Len(populatedFunctions)].id # n

----------------------------------------------------------------------------
\* the strategy's deploy of function n has settled, either way
DeploySettled(n) == branch[n].failed \/ branch[n].deployOptions # <<>>

\* the manifest read of function n has settled, either way
ReadSettled(n) == branch[n].read # <<>>

\* C16: for every function with a handler the steps come in the order getPkg,
\* checkSize, strategy deploy, getFileContent, normalize-and-append: a later
\* step has happened only if the earlier ones have, the manifest read is
\* started only once that function's deploy has settled, and the record, with
\* its normalized events and the outcome of the read as deps, is appended
\* only once the read has settled.
C16_BranchStepOrder ==
  \A n \in Names :
    HasHandler(DescriptionOf(n)) =>
      /\ <<"checkSize", n>> \in called => <<"getPkg", n>> \in called
      /\ <<"deploy", n>> \in called <=>
           branch[n].st \in {"Deploying", "Deployed", "Reading", "Extracting",
                             "ReadSettled", "Caught", "Populated", "Crashed"}
      /\ <<"deploy", n>> \in called => <<"checkSize", n>> \in called
      /\ DeploySettled(n) <=>
           branch[n].st \in {"Deployed", "Reading", "Extracting", "ReadSettled",
                             "Caught", "Populated", "Crashed"}
      /\ <<"getFileContent", n>> \in called <=>
           branch[n].st \in {"Reading", "Extracting", "ReadSettled", "Caught",
                             "Populated", "Crashed"}
      /\ <<"getFileContent", n>> \in called => DeploySettled(n)
      /\ ReadSettled(n) <=> branch[n].st \in {"ReadSettled", "Caught", "Populated"}
      /\ ReadSettled(n) => <<"getFileContent", n>> \in called
      /\ RecordsOf(n) # {} <=> branch[n].st = "Populated"
      /\ \A j \in RecordsOf(n) :
           /\ ReadSettled(n)
           /\ populatedFunctions[j].deps =
                IF Lstat(branch[n].pkg).manifest
                THEN ManifestText(branch[n].pkg) ELSE Undef
           /\ populatedFunctions[j].events =
                NormalizeEvents(EventsOf(DescriptionOf(n)))

\* a handler function has gone through all the steps and its record, with
\* normalized events and the manifest's text, is in the collection, while the
\* read of another has settled and its record is not yet appended
C16_Witness ==
  \E n, m \in Names :
    /\ HasHandler(DescriptionOf(n)) /\ HasHandler(DescriptionOf(m))
    /\ {<<"getPkg", n>>, <<"checkSize", n>>, <<"deploy", n>>,
        <<"getFileContent", n>>} \subseteq called
    /\ branch[n].deployOptions # <<>>
    /\ \E j \in RecordsOf(n) :
         /\ Len(populatedFunctions[j].events) >= 2
         /\ populatedFunctions[j].deps = ManifestText(branch[n].pkg)
    /\ branch[m].st = "ReadSettled"
    /\ RecordsOf(m) = {}

----------------------------------------------------------------------------
HandlerNames == {n \in Names : HasHandler(DescriptionOf(n))}

\* C17: when getPkg and checkSize succeed for all functions, the loop has
\* issued the strategy deploy of every handler function before the result of
\* any deploy or manifest read is processed, and from then on the deploy of
\* every still-pending branch may settle next, whatever the declaration order.
C17_AllBranchesLaunchedFirst ==
  (pc = "looped" /\ thrown = Undef) =>
    /\ \A n \in HandlerNames : <<"deploy", n>> \in called
    /\ \A n \in HandlerNames :
         branch[n].st = "Deploying" =>
           /\ ENABLED StrategyDeployFulfilled(n)
           /\ ENABLED StrategyDeployRejected(n)

\* the second declared function has been populated while the deploy of the
\* first is still pending
C17_Witness ==
  /\ Len(functions) >= 2
  /\ thrown = Undef
  /\ {functions[1].name, functions[2].name} \subseteq HandlerNames
  /\ branch[functions[1].name].st = "Deploying"
  /\ branch[functions[2].name].st = "Populated"

----------------------------------------------------------------------------
\* C18: the barrier check runs in the same step as every append, against the
\* length after it: a step that appends without reaching N records leaves the
\* promise as it is, the step that appends the N-th record fulfils a pending
\* promise there and then (a rejected one stays rejected), no step without an
\* append fulfils it, and so the barrier is released at most once.
C18_BarrierCheckedWithAppend ==
  [][ LET N == Len(functions)
          appended == populatedFunctions' # populatedFunctions
      IN
      /\ appended => Len(populatedFunctions') > Len(populatedFunctions)
      /\ (appended /\ Len(populatedFunctions') < N) => promise' = promise
      /\ (appended /\ Len(populatedFunctions') = N) =>
           IF promise.state = "pending"
           THEN promise'.state = "fulfilled" /\ promise'.jobs = 1
           ELSE promise' = promise
      /\ (~appended /\ promise'.state = "fulfilled") =>
           promise.state = "fulfilled"
      /\ Len(populatedFunctions') <= N
      /\ promise'.jobs + deployCalls' <= 1 ]_vars

\* the record of a handler function came last of at least two and its barrier
\* check has just released the barrier
C18_Witness ==
  /\ Len(functions) >= 2
  /\ Len(populatedFunctions) = Len(functions)
  /\ populatedFunctions[Len(populatedFunctions)].id \in HandlerNames
  /\ promise.state = "fulfilled"
  /\ promise.jobs = 1
  /\ deployCalls = 0

----------------------------------------------------------------------------
\* the declared fields that neither the metadata nor the record's own fields
\* can replace
KeptFields == {"handler", "package"}

\* at most one entry per declared function, under that function's key
OneEntryPerFunction ==
  /\ Len(populatedFunctions) <= Len(functions)
  /\ \A j, k \in 1..Len(populatedFunctions) :
       populatedFunctions[j].id = populatedFunctions[k].id => j = k
  /\ {populatedFunctions[j].id : j \in 1..Len(populatedFunctions)} =
       {n \in Names : branch[n].st = "Populated"}
  /\ \A j \in 1..Len(populatedFunctions) :
       LET description == DescriptionOf(populatedFunctions[j].id) IN
       \A f \in KeptFields \cap DOMAIN description :
         populatedFunctions[j][f] = description[f]

\* C19: populatedFunctions is append-only (every step leaves the entries it
\* held in place and unchanged), never grows beyond N entries, the ids of its
\* entries are pairwise distinct, and each entry carries as id the key of the
\* function it was built from, whatever id the declaration or the metadata of
\* the strategy's deploy carries.
C19_AppendOnlyOnePerFunction ==
  [][ /\ Len(populatedFunctions') >= Len(populatedFunctions)
      /\ \A j \in 1..Len(populatedFunctions) :
           populatedFunctions'[j] = populatedFunctions[j]
      /\ OneEntryPerFunction' ]_vars

\* an entry built from a declaration with its own id and from metadata with
\* its own id, next to another entry
C19_Witness ==
  /\ Len(populatedFunctions) >= 2
  /\ \E n \in Names :
       /\ branch[n].st = "Populated"
       /\ "id" \in DOMAIN DescriptionOf(n)
       /\ DescriptionOf(n).id # n
       /\ branch[n].deployOptions # <<>>
       /\ "id" \in DOMAIN branch[n].deployOptions[1]
       /\ branch[n].deployOptions[1].id # n

====
